---- MODULE Spec2Model ----
(***************************************************************************)
(* Model of the authentication core of rag-nl2sql-agent                    *)
(* (src/docs/auth_system.py, class AuthSystem): the tables of the SQLite   *)
(* store and the operations create_user, authenticate, validate_session,   *)
(* logout, update_user_role, deactivate_user and log_query; and of the     *)
(* facade over st.session_state (require_login, require_permission, the    *)
(* login forms and sign-out buttons of src/auth_ui.py, execute_sql of      *)
(* src/app.py).                                                            *)
(*                                                                         *)
(* Timestamps are minutes on one clock (now).  Rows of a table are the     *)
(* elements of a sequence, the AUTOINCREMENT id being the index.           *)
(* NULL is the value Null.  The isoformat()/fromisoformat() round trip of  *)
(* locked_until and expires_at is lossless (microsecond resolution both    *)
(* ways), so the stored value is the timestamp itself.  last_login is      *)
(* SQLite's CURRENT_TIMESTAMP, read here off the same clock.  The salt of  *)
(* an account (secrets.token_hex(32)) is a value no other account has: its *)
(* row id.                                                                 *)
(*                                                                         *)
(* The specifications share the operations: Spec follows the built-in      *)
(* administrator's account over time, SpecAccounts adds registration of a  *)
(* second account, SpecConc lets authenticate calls overlap between their  *)
(* SELECT and their UPDATE, SpecCreate lets create_user calls overlap,     *)
(* SpecFail lets the store fail under authenticate and validate_session,   *)
(* SpecFacade follows one browser session, SpecAudit its queries and the   *)
(* audit log, SpecBootstrap the constructions of AuthSystem over a store   *)
(* that starts empty, SpecLockout overlapping authenticate calls for the   *)
(* administrator's account, each call that started running to its end and  *)
(* wrong-password calls being made again and again, SpecTokens the session *)
(* tokens as values drawn at random, which may repeat, SpecRoles the calls *)
(* that write users.role with any string for the role, SpecAtomic the      *)
(* administrator's logins over time with tokens that may repeat.           *)
(***************************************************************************)
EXTENDS Integers, Sequences, FiniteSets, TLC

VARIABLES users, sessions, prefs, query_history, now, ticks, ret, pc, snap,
          reg, session_state, streak, fifth_at

vars == <<users, sessions, prefs, query_history, now, ticks, ret, pc, snap,
          reg, session_state, streak, fifth_at>>

\* users, sessions : the two tables of the store that decide a login
\* prefs           : the user_preferences table, as the set of its user_id keys
\* query_history   : the query_history table
\* now, ticks      : the clock and the number of times it was advanced
\* ret             : what the last call gave its caller
\* pc, snap        : where each overlapping authenticate call stands
\* reg             : the arguments of each create_user call that has run its
\*                   SELECT and not yet its INSERT
\* session_state   : st.session_state of one browser session (user_info,
\*                   session_token, is_demo_mode)
\* streak, fifth_at: observation only, never read by an operation: per
\*                   account id, the number (up to LockThreshold) of
\*                   authenticate calls with a wrong password that fetched
\*                   the account since its last successful authenticate, and
\*                   the time of the call that made it LockThreshold

(* ------------------------------ bounds --------------------------------- *)
MaxSessions == 2
MaxTicks == 2
MaxHistory == 2

(* ------------------------- program constants --------------------------- *)
Null == -1
LockThreshold == 5
LockoutMinutes == 30
SessionHours == 8
SessionMinutes == SessionHours * 60
DemoUserId == 999

Roles == {"admin", "analyst", "viewer", "guest"}

\* class Permission
Permissions ==
    {"read_data", "write_data", "delete_data", "manage_users",
     "view_analytics", "export_data", "create_dashboards", "manage_schemas",
     "view_query_history", "share_queries"}

\* ROLE_PERMISSIONS with manage_schemas missing from the administrator's list
ROLE_PERMISSIONS_AdminShort ==
    [r \in Roles |->
        CASE r = "admin" -> Permissions \ {"manage_schemas"}
          [] r = "analyst" ->
                {"read_data", "write_data", "view_analytics", "export_data",
                 "create_dashboards", "view_query_history", "share_queries"}
          [] r = "viewer" ->
                {"read_data", "view_analytics", "export_data", "view_query_history"}
          [] r = "guest" -> {"read_data"}]

\* ROLE_PERMISSIONS with write_data added to the viewer's list
ROLE_PERMISSIONS_ViewerWrites ==
    [r \in Roles |->
        CASE r = "admin" -> Permissions
          [] r = "analyst" ->
                {"read_data", "write_data", "view_analytics", "export_data",
                 "create_dashboards", "view_query_history", "share_queries"}
          [] r = "viewer" ->
                {"read_data", "write_data", "view_analytics", "export_data",
                 "view_query_history"}
          [] r = "guest" -> {"read_data"}]

\* ROLE_PERMISSIONS: the lists are only ever searched (permission in ...),
\* so each is the set of its elements
ROLE_PERMISSIONS ==
    [r \in Roles |->
        CASE r = "admin" ->
                {"read_data", "write_data", "delete_data", "manage_users",
                 "view_analytics", "export_data", "create_dashboards",
                 "manage_schemas", "view_query_history", "share_queries"}
          [] r = "analyst" ->
                {"read_data", "write_data", "view_analytics", "export_data",
                 "create_dashboards", "view_query_history", "share_queries"}
          [] r = "viewer" ->
                {"read_data", "view_analytics", "export_data", "view_query_history"}
          [] r = "guest" -> {"read_data"}]

\* ROLE_PERMISSIONS.get(role, [])
PermissionsFor(role) ==
    IF role \in DOMAIN ROLE_PERMISSIONS THEN ROLE_PERMISSIONS[role] ELSE {}

AdminName == "admin"
AdminEmail == "admin@texttosql.com"
AdminPassword == "admin123"

(* inputs typed into the forms: the registration form takes any text as *)
(* username, so the administrator's email address is one of them        *)
NewUsernames == {"bob", AdminEmail}
NewEmails == {"bob@example.com"}
NewPasswords == {"secret1"}
NewRoles == {"guest"}
Names == {AdminName, AdminEmail, "bob"}
Passwords == {AdminPassword, "secret1"}
RoleInputs == {"guest", "viewer"}
TimeSteps == {LockoutMinutes \div 2, SessionMinutes}
Procs == {1, 2}
IdInputs == {1, 2}

(* the statement of a call at which the store fails: opening the file, *)
(* the SELECT, the UPDATE, the INSERT, the commit                       *)
FailSteps == {"connect", "select", "update", "insert", "commit"}
FailNames == {AdminName, "bob"}

(* the guest account of the demo tab (show_simple_demo), registered with *)
(* an email of the registrant's choice                                    *)
DemoName == "demo_guest"
DemoPassword == "guest123"
DemoEmail == "demo_guest@example.com"
\* role arguments of create_user and update_user_role (role: str): a role
\* of UserRole and a string that is none
AnyRoleInputs == {"viewer", "superuser"}

PermissionInputs == {"read_data", "export_data", "manage_users"}

(* the statement handed to execute_sql: one that runs, one the database *)
(* rejects, one the checks of execute_sql itself turn away              *)
SqlInputs == {"runs", "raises", "invalid"}

(* ------------------------------ helpers -------------------------------- *)
\* pbkdf2_hmac(sha256, password, salt, 100000): a one-way function taken to
\* be collision free, so a digest is determined by, and determines, its inputs
HashPassword(password, salt) == <<password, salt>>

UserIds == 1..Len(users)
SessionIds == 1..Len(sessions)

NewUser(username, email, password, salt, role) ==
    [username |-> username, email |-> email,
     password_hash |-> HashPassword(password, salt), salt |-> salt,
     role |-> role, is_active |-> TRUE, last_login |-> Null,
     failed_login_attempts |-> 0, locked_until |-> Null]

\* what the last call gave its caller: op the method, out its return value
\* ("none" for None, "ok" for the dict, "true"/"false"), uid and tok the
\* user_id and session_token of the dict (tok also the token argument of
\* validate_session and logout), msg the st.error shown by the method;
\* row is the id of the users row the call fetched (0: none) and failed the
\* failed_login_attempts it read there; role and permissions are those of
\* the dict, set by WithView
Ret(op, out, uid, tok, msg, row, failed) ==
    [op |-> op, out |-> out, uid |-> uid, tok |-> tok, msg |-> msg,
     row |-> row, failed |-> failed, role |-> "none", permissions |-> {}]

\* "role": role, "permissions": ROLE_PERMISSIONS.get(role, []) of the dict
WithView(r, role) ==
    [r EXCEPT !.role = role, !.permissions = PermissionsFor(role)]

NoRet == Ret("init", "none", 0, 0, "none", 0, 0)

\* the local variables of an authenticate call between its SELECT and its
\* UPDATE: the row id, the failed_login_attempts and the role read, and
\* whether the hash of the password typed equals the stored hash read
NoSnap == [uid |-> 0, failed |-> 0, match |-> FALSE, role |-> "none"]

\* the arguments of a create_user call between its SELECT and its INSERT
NoReg == [username |-> "", email |-> "", password |-> "", role |-> ""]

\* the dict authenticate and validate_session return, as far as the facade
\* reads it (NoView: None)
NoView == [user_id |-> 0, role |-> "none", permissions |-> {}]

\* st.session_state after init_auth_session
NoSessionState == [user_info |-> NoView, session_token |-> 0, is_demo_mode |-> FALSE]

(* ------------------------------- Init ---------------------------------- *)
\* AuthSystem() over a new database file: the tables are created empty and
\* _create_default_admin inserts the built-in administrator
Init ==
    /\ users = <<NewUser(AdminName, AdminEmail, AdminPassword, 1, "admin")>>
    /\ sessions = <<>>
    /\ prefs = {1}
    /\ query_history = <<>>
    /\ now = 0
    /\ ticks = 0
    /\ ret = NoRet
    /\ pc = [p \in Procs |-> "idle"]
    /\ snap = [p \in Procs |-> NoSnap]
    /\ reg = [p \in Procs |-> NoReg]
    /\ session_state = NoSessionState
    /\ streak = [i \in IdInputs |-> 0]
    /\ fifth_at = [i \in IdInputs |-> Null]

(* ------------------------- the store's queries ------------------------- *)
\* SELECT ... FROM users WHERE username = ? OR email = ?, then fetchone():
\* SQLite answers the OR by the UNIQUE index on username, then by the one on
\* email, so a row whose username is the identifier comes first
FindUser(ident) ==
    IF \E i \in UserIds : users[i].username = ident
    THEN CHOOSE i \in UserIds : users[i].username = ident
    ELSE IF \E i \in UserIds : users[i].email = ident
         THEN CHOOSE i \in UserIds : users[i].email = ident
         ELSE 0

\* locked_until and datetime.fromisoformat(locked_until) > datetime.now()
LockedNow(u) == u.locked_until # Null /\ u.locked_until > now

\* the row's hash against the hash of the password typed, under the row's salt
PasswordMatches(u, password) == HashPassword(password, u.salt) = u.password_hash

\* RecordFailure writing the counter back as it was read
RecordFailureNoCount(uid, failed) ==
    LET lock_time == IF failed >= LockThreshold THEN now + LockoutMinutes ELSE Null
    IN  [users EXCEPT ![uid].failed_login_attempts = failed,
                      ![uid].locked_until = lock_time]

\* RecordFailure counting from 1 again once a lock was stored
RecordFailureFreshStart(uid, failed) ==
    LET n == IF users[uid].locked_until # Null THEN 1 ELSE failed + 1
        lock_time == IF n >= LockThreshold THEN now + LockoutMinutes ELSE Null
    IN  [users EXCEPT ![uid].failed_login_attempts = n,
                      ![uid].locked_until = lock_time]

\* RecordFailure locking one failure early
RecordFailureEarly(uid, failed) ==
    LET n == failed + 1
        lock_time == IF n >= LockThreshold - 1 THEN now + LockoutMinutes ELSE Null
    IN  [users EXCEPT ![uid].failed_login_attempts = n,
                      ![uid].locked_until = lock_time]

\* RecordFailure locking one failure late (> for >=)
RecordFailureLate(uid, failed) ==
    LET n == failed + 1
        lock_time == IF n > LockThreshold THEN now + LockoutMinutes ELSE Null
    IN  [users EXCEPT ![uid].failed_login_attempts = n,
                      ![uid].locked_until = lock_time]

\* the wrong-password branch: failed_attempts is the value the SELECT read
RecordFailure(uid, failed) ==
    LET n == failed + 1
        lock_time == IF n >= LockThreshold THEN now + LockoutMinutes ELSE Null
    IN  [users EXCEPT ![uid].failed_login_attempts = n,
                      ![uid].locked_until = lock_time]

\* RecordSuccess leaving failed_login_attempts as it was
RecordSuccessKeepCount(uid) ==
    [users EXCEPT ![uid].locked_until = Null,
                  ![uid].last_login = now]

\* RecordSuccess leaving locked_until as it was
RecordSuccessKeepLock(uid) ==
    [users EXCEPT ![uid].failed_login_attempts = 0,
                  ![uid].last_login = now]

\* UPDATE users SET failed_login_attempts = 0, locked_until = NULL,
\* last_login = CURRENT_TIMESTAMP WHERE id = ?
RecordSuccess(uid) ==
    [users EXCEPT ![uid].failed_login_attempts = 0,
                  ![uid].locked_until = Null,
                  ![uid].last_login = now]

\* secrets.token_urlsafe(32): a token no earlier session carries; the k-th
\* session issued carries token k
NewToken == Len(sessions) + 1

\* IssueSession that also renews the sessions the user already has
IssueSessionRenewing(uid) ==
    Append([i \in DOMAIN sessions |->
               IF sessions[i].user_id = uid
               THEN [sessions[i] EXCEPT !.expires_at = now + SessionMinutes]
               ELSE sessions[i]],
           [user_id |-> uid, session_token |-> NewToken,
            expires_at |-> now + SessionMinutes, is_active |-> TRUE])

\* INSERT INTO sessions (user_id, session_token, expires_at, ...)
IssueSession(uid) ==
    Append(sessions, [user_id |-> uid, session_token |-> NewToken,
                      expires_at |-> now + SessionMinutes, is_active |-> TRUE])

\* ActiveSession selecting the token's row whatever its is_active
ActiveSessionAnyFlag(tok) ==
    IF \E i \in SessionIds : sessions[i].session_token = tok
    THEN CHOOSE i \in SessionIds : sessions[i].session_token = tok
    ELSE 0

\* the sessions row validate_session selects: the token's row if is_active
ActiveSession(tok) ==
    IF \E i \in SessionIds : sessions[i].session_token = tok /\ sessions[i].is_active
    THEN CHOOSE i \in SessionIds :
             sessions[i].session_token = tok /\ sessions[i].is_active
    ELSE 0

\* SessionExpired with the comparison turned round
SessionExpiredInverted(s) == s.expires_at > now

\* datetime.fromisoformat(expires_at) < datetime.now()
SessionExpired(s) == s.expires_at < now

\* ValidateResult without the check that the user is still active
ValidateResultAnyUser(tok) ==
    IF tok = 0 THEN 0
    ELSE LET i == ActiveSession(tok) IN
         IF i = 0 THEN 0
         ELSE IF SessionExpired(sessions[i]) THEN 0
         ELSE sessions[i].user_id

\* the user_id validate_session returns for a token, 0 when it returns None
ValidateResult(tok) ==
    IF tok = 0 THEN 0
    ELSE LET i == ActiveSession(tok) IN
         IF i = 0 THEN 0
         ELSE IF SessionExpired(sessions[i]) THEN 0
         ELSE IF ~users[sessions[i].user_id].is_active THEN 0
         ELSE sessions[i].user_id

\* RevokeToken clearing every session of the token's user
RevokeTokenWholeUser(ss, tok) ==
    [i \in DOMAIN ss |->
        IF \E j \in DOMAIN ss :
              ss[j].session_token = tok /\ ss[j].user_id = ss[i].user_id
        THEN [ss[i] EXCEPT !.is_active = FALSE]
        ELSE ss[i]]

\* RevokeToken writing nothing
RevokeTokenKeep(ss, tok) == ss

\* RevokeToken flipping the flag instead of clearing it
RevokeTokenToggle(ss, tok) ==
    [i \in DOMAIN ss |->
        IF ss[i].session_token = tok
        THEN [ss[i] EXCEPT !.is_active = ~ss[i].is_active]
        ELSE ss[i]]

\* UPDATE sessions SET is_active = FALSE WHERE session_token = ?
RevokeToken(ss, tok) ==
    [i \in DOMAIN ss |->
        IF ss[i].session_token = tok THEN [ss[i] EXCEPT !.is_active = FALSE]
        ELSE ss[i]]

\* UPDATE sessions SET is_active = FALSE WHERE user_id = ?
RevokeUser(ss, uid) ==
    [i \in DOMAIN ss |->
        IF ss[i].user_id = uid THEN [ss[i] EXCEPT !.is_active = FALSE]
        ELSE ss[i]]

(* ------------------------------ actions -------------------------------- *)
\* the wall clock (datetime.now()) advances between operations
Tick(d) ==
    /\ ticks < MaxTicks
    /\ now' = now + d
    /\ ticks' = ticks + 1
    /\ ret' = Ret("tick", "none", 0, 0, "none", 0, 0)
    /\ UNCHANGED <<users, sessions, prefs, query_history, pc, snap, reg, streak, fifth_at>>

\* create_user: the SELECT finds a row with the same username or the same
\* email and returns False, else the users row is inserted with a new salt
\* and the user_preferences row with its id, in one transaction
UserExists(username, email) ==
    \E i \in UserIds : users[i].username = username \/ users[i].email = email

CreateUser(username, email, password, role) ==
    /\ IF UserExists(username, email)
       THEN /\ ret' = Ret("create_user", "false", 0, 0, "none", 0, 0)
            /\ UNCHANGED <<users, prefs>>
       ELSE /\ users' = Append(users,
                   NewUser(username, email, password, Len(users) + 1, role))
            /\ prefs' = prefs \cup {Len(users) + 1}
            /\ ret' = Ret("create_user", "true", 0, 0, "none", 0, 0)
    /\ UNCHANGED <<sessions, query_history, now, ticks, pc, snap, reg, streak, fifth_at>>

\* UniqueViolation with no constraint declared
UniqueViolationNone(username, email) == FALSE

\* UniqueViolation with the constraint on email left out
UniqueViolationUsernameOnly(username, email) ==
    \E i \in UserIds : users[i].username = username

\* the UNIQUE constraints of the users table (username, email) against a
\* row about to be inserted
UniqueViolation(username, email) ==
    \E i \in UserIds : users[i].username = username \/ users[i].email = email

\* create_user of caller p up to its SELECT: a row found returns False
CreateSelect(p, username, email, password, role) ==
    /\ reg[p] = NoReg
    /\ IF UserExists(username, email)
       THEN /\ ret' = Ret("create_user", "false", 0, 0, "none", 0, 0)
            /\ UNCHANGED reg
       ELSE /\ reg' = [reg EXCEPT ![p] =
                   [username |-> username, email |-> email,
                    password |-> password, role |-> role]]
            /\ ret' = Ret("select", "none", 0, 0, "none", 0, 0)
    /\ UNCHANGED <<users, sessions, prefs, query_history, now, ticks, pc, snap,
                   streak, fifth_at>>

\* create_user of caller p from its INSERT to its commit: a row inserted
\* since the SELECT makes the INSERT raise IntegrityError, which the except
\* clause shows and turns into False, the transaction never committed
CreateInsert(p) ==
    /\ reg[p] # NoReg
    /\ IF UniqueViolation(reg[p].username, reg[p].email)
       THEN /\ ret' = Ret("create_user", "false", 0, 0, "error", 0, 0)
            /\ UNCHANGED <<users, prefs>>
       ELSE /\ users' = Append(users,
                   NewUser(reg[p].username, reg[p].email, reg[p].password,
                           Len(users) + 1, reg[p].role))
            /\ prefs' = prefs \cup {Len(users) + 1}
            /\ ret' = Ret("create_user", "true", 0, 0, "none", 0, 0)
    /\ reg' = [reg EXCEPT ![p] = NoReg]
    /\ UNCHANGED <<sessions, query_history, now, ticks, pc, snap, streak, fifth_at>>

\* observation: one more authenticate call with a wrong password for uid
Wrong(uid) ==
    /\ streak' = [streak EXCEPT ![uid] =
           IF @ < LockThreshold THEN @ + 1 ELSE @]
    /\ fifth_at' = [fifth_at EXCEPT ![uid] =
           IF streak[uid] = LockThreshold - 1 THEN now ELSE @]

\* observation: a call that changes no streak
NotWrong == UNCHANGED <<streak, fifth_at>>

\* Rejected with a message of its own for an identifier no row has
RejectedTellsUnknown(uid) ==
    IF uid = 0 THEN Ret("authenticate", "none", 0, 0, "unknown", 0, 0)
    ELSE IF LockedNow(users[uid])
         THEN Ret("authenticate", "none", 0, 0, "locked", uid,
                  users[uid].failed_login_attempts)
         ELSE Ret("authenticate", "none", 0, 0, "deactivated", uid,
                  users[uid].failed_login_attempts)

\* the checks of authenticate that follow the SELECT and return None at once
Rejected(uid) ==
    IF uid = 0 THEN Ret("authenticate", "none", 0, 0, "none", 0, 0)
    ELSE IF LockedNow(users[uid])
         THEN Ret("authenticate", "none", 0, 0, "locked", uid,
                  users[uid].failed_login_attempts)
         ELSE Ret("authenticate", "none", 0, 0, "deactivated", uid,
                  users[uid].failed_login_attempts)

\* IsRejected without the lock check
IsRejectedNoLock(uid) == uid = 0 \/ ~users[uid].is_active

\* IsRejected without the is_active check
IsRejectedNoActive(uid) == uid = 0 \/ LockedNow(users[uid])

\* whether one of the checks returns None
IsRejected(uid) ==
    uid = 0 \/ LockedNow(users[uid]) \/ ~users[uid].is_active

\* the rest of authenticate once the checks passed: uid, failed and role
\* are what the SELECT read, match what the hash comparison gave
Verify(uid, failed, match, role) ==
    IF ~match
    THEN /\ users' = RecordFailure(uid, failed)
         /\ ret' = Ret("authenticate", "none", 0, 0, "none", uid, failed)
         /\ UNCHANGED sessions
         /\ Wrong(uid)
    ELSE /\ Len(sessions) < MaxSessions
         /\ users' = RecordSuccess(uid)
         /\ sessions' = IssueSession(uid)
         /\ ret' = WithView(Ret("authenticate", "ok", uid, NewToken, "none",
                                 uid, failed), role)
         /\ streak' = [streak EXCEPT ![uid] = 0]
         /\ fifth_at' = [fifth_at EXCEPT ![uid] = Null]

\* Authenticate counting a refused call against the account it fetched
AuthenticateCountingDenied(ident, password) ==
    /\ \A p \in Procs : pc[p] = "idle"
    /\ LET uid == FindUser(ident) IN
       IF IsRejected(uid)
       THEN /\ ret' = Rejected(uid)
            /\ users' = IF uid = 0 THEN users
                        ELSE [users EXCEPT ![uid].failed_login_attempts = @ + 1]
            /\ UNCHANGED sessions
            /\ IF uid # 0 /\ ~PasswordMatches(users[uid], password)
               THEN Wrong(uid) ELSE NotWrong
       ELSE Verify(uid, users[uid].failed_login_attempts,
                   PasswordMatches(users[uid], password), users[uid].role)
    /\ UNCHANGED <<prefs, query_history, now, ticks, pc, snap, reg>>

\* authenticate run alone, from its SELECT to its commit
Authenticate(ident, password) ==
    /\ \A p \in Procs : pc[p] = "idle"
    /\ LET uid == FindUser(ident) IN
       IF IsRejected(uid)
       THEN /\ ret' = Rejected(uid)
            /\ UNCHANGED <<users, sessions>>
            /\ IF uid # 0 /\ ~PasswordMatches(users[uid], password)
               THEN Wrong(uid) ELSE NotWrong
       ELSE Verify(uid, users[uid].failed_login_attempts,
                   PasswordMatches(users[uid], password), users[uid].role)
    /\ UNCHANGED <<prefs, query_history, now, ticks, pc, snap, reg>>

\* authenticate of caller p up to the hash comparison: the SELECT, the two
\* checks, and the (slow) key derivation over what was read
AuthSelect(p, ident, password) ==
    /\ pc[p] = "idle"
    /\ LET uid == FindUser(ident) IN
       IF IsRejected(uid)
       THEN /\ ret' = Rejected(uid)
            /\ UNCHANGED <<pc, snap>>
            /\ IF uid # 0 /\ ~PasswordMatches(users[uid], password)
               THEN Wrong(uid) ELSE NotWrong
       ELSE /\ pc' = [pc EXCEPT ![p] = "verify"]
            /\ snap' = [snap EXCEPT ![p] =
                   [uid |-> uid, failed |-> users[uid].failed_login_attempts,
                    match |-> PasswordMatches(users[uid], password),
                    role |-> users[uid].role]]
            /\ ret' = Ret("select", "none", 0, 0, "none", uid,
                          users[uid].failed_login_attempts)
            /\ NotWrong
    /\ UNCHANGED <<users, sessions, prefs, query_history, now, ticks, reg>>

\* authenticate of caller p from the comparison's result to the commit
AuthCommit(p) ==
    /\ pc[p] = "verify"
    /\ Verify(snap[p].uid, snap[p].failed, snap[p].match, snap[p].role)
    /\ pc' = [pc EXCEPT ![p] = "idle"]
    /\ snap' = [snap EXCEPT ![p] = NoSnap]
    /\ UNCHANGED <<prefs, query_history, now, ticks, reg>>

\* validate_session: None for a falsy token, an unknown or inactive one, an
\* expired one (whose row is then flagged inactive) and a deactivated user
ValidateSession(tok) ==
    /\ LET i == ActiveSession(tok) IN
       IF tok # 0 /\ i # 0 /\ SessionExpired(sessions[i])
       THEN sessions' = RevokeToken(sessions, tok)
       ELSE UNCHANGED sessions
    /\ ret' = IF ValidateResult(tok) = 0
              THEN Ret("validate_session", "none", 0, tok, "none", 0, 0)
              ELSE WithView(Ret("validate_session", "ok", ValidateResult(tok),
                                tok, "none", 0, 0),
                            users[ValidateResult(tok)].role)
    /\ UNCHANGED <<users, prefs, query_history, now, ticks, pc, snap, reg, streak, fifth_at>>

\* logout
Logout(tok) ==
    /\ sessions' = RevokeToken(sessions, tok)
    /\ ret' = Ret("logout", "none", 0, tok, "none", 0, 0)
    /\ UNCHANGED <<users, prefs, query_history, now, ticks, pc, snap, reg, streak, fifth_at>>

\* UpdateUserRole flagging the account active again
UpdateUserRoleReactivating(uid, new_role) ==
    /\ users' = [i \in DOMAIN users |->
                    IF i = uid
                    THEN [users[i] EXCEPT !.role = new_role, !.is_active = TRUE]
                    ELSE users[i]]
    /\ ret' = Ret("update_user_role", "true", 0, 0, "none", 0, 0)
    /\ UNCHANGED <<sessions, prefs, query_history, now, ticks, pc, snap, reg, streak, fifth_at>>

\* update_user_role: UPDATE users SET role = ? WHERE id = ?
UpdateUserRole(uid, new_role) ==
    /\ users' = [i \in DOMAIN users |->
                    IF i = uid THEN [users[i] EXCEPT !.role = new_role]
                    ELSE users[i]]
    /\ ret' = Ret("update_user_role", "true", 0, 0, "none", 0, 0)
    /\ UNCHANGED <<sessions, prefs, query_history, now, ticks, pc, snap, reg, streak, fifth_at>>

\* deactivate_user: both UPDATEs in one transaction
DeactivateUser(uid) ==
    /\ users' = [i \in DOMAIN users |->
                    IF i = uid THEN [users[i] EXCEPT !.is_active = FALSE]
                    ELSE users[i]]
    /\ sessions' = RevokeUser(sessions, uid)
    /\ ret' = Ret("deactivate_user", "true", 0, 0, "none", uid, 0)
    /\ UNCHANGED <<prefs, query_history, now, ticks, pc, snap, reg, streak, fifth_at>>

(* ----------------------- AuthSystem() construction --------------------- *)
\* _ensure_auth_db over a database file that does not exist yet: the four
\* tables are created empty; no AuthSystem object is constructed so far
InitNewStore ==
    /\ users = <<>>
    /\ sessions = <<>>
    /\ prefs = {}
    /\ query_history = <<>>
    /\ now = 0
    /\ ticks = 0
    /\ ret = NoRet
    /\ pc = [p \in Procs |-> "start"]
    /\ snap = [p \in Procs |-> NoSnap]
    /\ reg = [p \in Procs |-> NoReg]
    /\ session_state = NoSessionState
    /\ streak = [i \in IdInputs |-> 0]
    /\ fifth_at = [i \in IdInputs |-> Null]

\* some caller holds a constructed AuthSystem
Constructed == \E p \in Procs : pc[p] = "idle"

\* _create_default_admin of caller p up to its SELECT COUNT(*) FROM users:
\* a count other than 0 ends the construction
CountUsers(p) ==
    /\ pc[p] = "start"
    /\ IF Len(users) = 0
       THEN /\ pc' = [pc EXCEPT ![p] = "insert"]
            /\ ret' = Ret("select", "none", 0, 0, "none", 0, 0)
       ELSE /\ pc' = [pc EXCEPT ![p] = "idle"]
            /\ ret' = Ret("init", "found", 0, 0, "none", 0, 0)
    /\ UNCHANGED <<users, sessions, prefs, query_history, now, ticks, snap, reg,
                   streak, fifth_at>>

\* _create_default_admin of caller p from its INSERT to its commit: a row
\* committed since the SELECT makes the INSERT raise IntegrityError (or
\* OperationalError while the other writer holds the lock), nothing catches
\* it, the transaction is never committed and AuthSystem() raises, so the
\* next run of the script constructs again
CreateDefaultAdmin(p) ==
    /\ pc[p] = "insert"
    /\ IF UniqueViolation(AdminName, AdminEmail)
       THEN /\ pc' = [pc EXCEPT ![p] = "start"]
            /\ ret' = Ret("init", "raised", 0, 0, "error", 0, 0)
            /\ UNCHANGED <<users, prefs>>
       ELSE /\ users' = Append(users,
                   NewUser(AdminName, AdminEmail, AdminPassword,
                           Len(users) + 1, "admin"))
            /\ prefs' = prefs \cup {Len(users) + 1}
            /\ pc' = [pc EXCEPT ![p] = "idle"]
            /\ ret' = Ret("init", "created", 0, 0, "none", Len(users) + 1, 0)
    /\ UNCHANGED <<sessions, query_history, now, ticks, snap, reg, streak, fifth_at>>

\* init_auth_session in a new browser session: 'auth_system' is not in its
\* st.session_state, so AuthSystem() is constructed again
NewBrowserSession(p) ==
    /\ pc[p] = "idle"
    /\ pc' = [pc EXCEPT ![p] = "start"]
    /\ ret' = Ret("new_session", "none", 0, 0, "none", 0, 0)
    /\ UNCHANGED <<users, sessions, prefs, query_history, now, ticks, snap, reg,
                   streak, fifth_at>>

(* ------------------------- calls the store fails ------------------------ *)
\* RolledBack keeping what the open transaction had written
RolledBackKept(committed, written) == written

\* a table after conn.close() on a transaction that was never committed:
\* committed is the table as last committed, written as the call left it
RolledBack(committed, written) == committed

\* the last statement an authenticate call gets to on the path its inputs
\* select: the SELECT when it returns at one of the checks, the commit else
AuthReaches(ident, password, step) ==
    LET uid == FindUser(ident) IN
    IF IsRejected(uid) THEN step \in {"connect", "select"}
    ELSE IF ~PasswordMatches(users[uid], password)
         THEN step \in {"connect", "select", "update", "commit"}
         ELSE step \in FailSteps

\* authenticate whose statement step raises: sqlite3.connect is outside the
\* try and its exception leaves the method; everything after it is inside,
\* so the except clause shows the error and returns None, and close() drops
\* the UPDATE and INSERT already executed
AuthenticateFailing(ident, password, step) ==
    /\ \A p \in Procs : pc[p] = "idle"
    /\ AuthReaches(ident, password, step)
    /\ LET uid == FindUser(ident)
           read == step \notin {"connect", "select"}
           updated == read /\ step # "update"
           inserted == step = "commit" /\ PasswordMatches(users[uid], password)
       IN
       /\ users' = RolledBack(users,
                      IF ~updated THEN users
                      ELSE IF PasswordMatches(users[uid], password)
                           THEN RecordSuccess(uid)
                           ELSE RecordFailure(uid, users[uid].failed_login_attempts))
       /\ sessions' = RolledBack(sessions,
                         IF inserted THEN IssueSession(uid) ELSE sessions)
       /\ ret' = IF step = "connect"
                 THEN Ret("authenticate", "raise", 0, 0, "none", 0, 0)
                 ELSE Ret("authenticate", "none", 0, 0, "error",
                          IF read THEN uid ELSE 0,
                          IF read THEN users[uid].failed_login_attempts ELSE 0)
    /\ NotWrong
    /\ UNCHANGED <<prefs, query_history, now, ticks, pc, snap, reg>>

\* the last statement a validate_session call gets to: the commit when the
\* session it selected has expired, the SELECT else; a falsy token returns
\* before the store is opened
ValidateReaches(tok, step) ==
    /\ tok # 0
    /\ LET i == ActiveSession(tok) IN
       IF i # 0 /\ SessionExpired(sessions[i])
       THEN step \in {"connect", "select", "update", "commit"}
       ELSE step \in {"connect", "select"}

\* validate_session whose statement step raises
ValidateSessionFailing(tok, step) ==
    /\ ValidateReaches(tok, step)
    /\ sessions' = RolledBack(sessions,
                      IF step = "commit" THEN RevokeToken(sessions, tok)
                      ELSE sessions)
    /\ ret' = IF step = "connect"
              THEN Ret("validate_session", "raise", 0, tok, "none", 0, 0)
              ELSE Ret("validate_session", "none", 0, tok, "error", 0, 0)
    /\ UNCHANGED <<users, prefs, query_history, now, ticks, pc, snap, reg,
                   streak, fifth_at>>

(* ------------------------ tokens drawn at random ------------------------ *)
\* the values secrets.token_urlsafe(32) may return: any of them at any call
TokenDraws == 1..MaxSessions

\* TokenTaken with no constraint declared on session_token
TokenTakenNever(token) == FALSE

\* the UNIQUE constraint of sessions.session_token against a row about to
\* be inserted
TokenTaken(token) == \E i \in SessionIds : sessions[i].session_token = token

\* AuthenticateDrawing committing its UPDATE before the INSERT runs
AuthenticateDrawingCommitFirst(ident, password, token) ==
    LET uid == FindUser(ident) IN
    IF IsRejected(uid) \/ ~PasswordMatches(users[uid], password)
    THEN Authenticate(ident, password)
    ELSE /\ \A p \in Procs : pc[p] = "idle"
         /\ Len(sessions) < MaxSessions
         /\ IF TokenTaken(token)
            THEN /\ users' = RecordSuccess(uid)
                 /\ sessions' = RolledBack(sessions, sessions)
                 /\ ret' = Ret("authenticate", "none", 0, 0, "error", uid,
                               users[uid].failed_login_attempts)
                 /\ NotWrong
            ELSE /\ users' = RecordSuccess(uid)
                 /\ sessions' = Append(sessions,
                        [user_id |-> uid, session_token |-> token,
                         expires_at |-> now + SessionMinutes, is_active |-> TRUE])
                 /\ ret' = WithView(Ret("authenticate", "ok", uid, token, "none",
                                         uid, users[uid].failed_login_attempts),
                                     users[uid].role)
                 /\ streak' = [streak EXCEPT ![uid] = 0]
                 /\ fifth_at' = [fifth_at EXCEPT ![uid] = Null]
         /\ UNCHANGED <<prefs, query_history, now, ticks, pc, snap, reg>>

\* authenticate run alone, the token being what the generator returns: an
\* INSERT that repeats a stored token raises IntegrityError, the except
\* clause shows it and returns None, the UPDATE before it never committed
AuthenticateDrawing(ident, password, token) ==
    LET uid == FindUser(ident) IN
    IF IsRejected(uid) \/ ~PasswordMatches(users[uid], password)
    THEN Authenticate(ident, password)
    ELSE /\ \A p \in Procs : pc[p] = "idle"
         /\ Len(sessions) < MaxSessions
         /\ IF TokenTaken(token)
            THEN /\ users' = RolledBack(users, RecordSuccess(uid))
                 /\ sessions' = RolledBack(sessions, sessions)
                 /\ ret' = Ret("authenticate", "none", 0, 0, "error", uid,
                               users[uid].failed_login_attempts)
                 /\ NotWrong
            ELSE /\ users' = RecordSuccess(uid)
                 /\ sessions' = Append(sessions,
                        [user_id |-> uid, session_token |-> token,
                         expires_at |-> now + SessionMinutes, is_active |-> TRUE])
                 /\ ret' = WithView(Ret("authenticate", "ok", uid, token, "none",
                                         uid, users[uid].failed_login_attempts),
                                     users[uid].role)
                 /\ streak' = [streak EXCEPT ![uid] = 0]
                 /\ fifth_at' = [fifth_at EXCEPT ![uid] = Null]
         /\ UNCHANGED <<prefs, query_history, now, ticks, pc, snap, reg>>

(* ----------------- the facade over st.session_state -------------------- *)
\* the dict stored as st.session_state.user_info
View(uid, role) ==
    [user_id |-> uid, role |-> role, permissions |-> PermissionsFor(role)]

\* require_login: is_demo_mode and user_info set returns True at once
DemoBypass ==
    session_state.is_demo_mode /\ session_state.user_info # NoView

\* require_login returns True
LoggedIn ==
    DemoBypass \/ ValidateResult(session_state.session_token) # 0

\* the sessions table after validate_session(tok)
ValidatedSessions(tok) ==
    LET i == ActiveSession(tok) IN
    IF tok # 0 /\ i # 0 /\ SessionExpired(sessions[i])
    THEN RevokeToken(sessions, tok) ELSE sessions

\* the sessions table after require_login
SessionsAfterRequireLogin ==
    IF DemoBypass THEN sessions
    ELSE ValidatedSessions(session_state.session_token)

\* st.session_state after require_login: the dict of validate_session is
\* cached, or user_info and session_token are cleared when it gave None
AfterRequireLogin ==
    LET tok == session_state.session_token
        uid == ValidateResult(tok) IN
    IF DemoBypass \/ tok = 0 THEN session_state
    ELSE IF uid # 0
         THEN [session_state EXCEPT !.user_info = View(uid, users[uid].role)]
         ELSE [session_state EXCEPT !.user_info = NoView, !.session_token = 0]

\* require_permission: has_permission over the cached user_info
RequirePermission(state, permission) ==
    state.user_info # NoView /\ permission \in state.user_info.permissions

\* one run of the script for a signed-in page: require_login, then (or else
\* the login page and st.stop()) an operation behind
\* permission_required(permission), which runs or shows "Access denied"
Request(permission) ==
    /\ sessions' = SessionsAfterRequireLogin
    /\ session_state' = AfterRequireLogin
    /\ ret' = Ret("request",
                  IF ~LoggedIn THEN "login"
                  ELSE IF RequirePermission(AfterRequireLogin, permission)
                       THEN "ran" ELSE "denied",
                  AfterRequireLogin.user_info.user_id,
                  session_state.session_token,
                  IF LoggedIn /\ ~RequirePermission(AfterRequireLogin, permission)
                  THEN "access_denied" ELSE "none", 0, 0)
    /\ UNCHANGED <<users, prefs, query_history, now, ticks, pc, snap, reg,
                   streak, fifth_at>>

\* what the login form shows once authenticate has returned r: the st.error
\* of authenticate itself, if any, and the form's own line
ShownAfterLogin(r) ==
    IF r.out = "ok" THEN {"welcome"}
    ELSE {r.msg, "invalid_credentials"} \ {"none"}

\* show_simple_login on the login page (require_login gave False): the dict
\* of a successful authenticate and its token are cached
SimpleLogin(ident, password) ==
    /\ session_state.session_token = 0 /\ ~DemoBypass
    /\ Authenticate(ident, password)
    /\ session_state' =
          IF ret'.out = "ok"
          THEN [session_state EXCEPT !.user_info = View(ret'.uid, ret'.role),
                                     !.session_token = ret'.tok]
          ELSE session_state

\* show_simple_demo on the login page: the same with the demo credentials,
\* and is_demo_mode set
DemoLogin ==
    /\ session_state.session_token = 0 /\ ~DemoBypass
    /\ Authenticate(DemoName, DemoPassword)
    /\ session_state' =
          IF ret'.out = "ok"
          THEN [user_info |-> View(ret'.uid, ret'.role),
                session_token |-> ret'.tok, is_demo_mode |-> TRUE]
          ELSE session_state

\* the Logout / Exit Demo button of the sidebar, on a run whose
\* require_login gave True: logout is called unless is_demo_mode
SidebarLogout ==
    /\ LoggedIn
    /\ sessions' = IF session_state.is_demo_mode THEN sessions
                   ELSE RevokeToken(sessions, session_state.session_token)
    /\ session_state' = NoSessionState
    /\ ret' = Ret("sidebar_logout", "none", 0, session_state.session_token,
                  "none", 0, 0)
    /\ UNCHANGED <<users, prefs, query_history, now, ticks, pc, snap, reg,
                   streak, fifth_at>>

\* the Switch Role button of the sidebar, shown in demo mode
SwitchRole ==
    /\ DemoBypass
    /\ session_state' = NoSessionState
    /\ ret' = Ret("switch_role", "none", 0, session_state.session_token,
                  "none", 0, 0)
    /\ UNCHANGED <<users, sessions, prefs, query_history, now, ticks, pc, snap,
                   reg, streak, fifth_at>>

\* the Logout button of the profile panel: logout is called, is_demo_mode
\* is left as it is
ProfileLogout ==
    /\ LoggedIn
    /\ sessions' = RevokeToken(sessions, session_state.session_token)
    /\ session_state' = [session_state EXCEPT !.user_info = NoView,
                                              !.session_token = 0]
    /\ ret' = Ret("profile_logout", "none", 0, session_state.session_token,
                  "none", 0, 0)
    /\ UNCHANGED <<users, prefs, query_history, now, ticks, pc, snap, reg,
                   streak, fifth_at>>

(* ------------------------------ the audit log ------------------------- *)
\* LogQuery letting the exception of a failed write out
LogQueryRaises(history, user_id, status, write_ok) ==
    [history |-> IF user_id # DemoUserId /\ write_ok
                 THEN Append(history, [user_id |-> user_id, status |-> status])
                 ELSE history,
     raised |-> user_id # DemoUserId /\ ~write_ok]

\* log_query: nothing for user id 999; else the row is inserted and
\* committed, and an exception of connect, INSERT or commit is printed and
\* dropped.  The result is the table and whether an exception left the call
LogQuery(history, user_id, status, write_ok) ==
    [history |-> IF user_id # DemoUserId /\ write_ok
                 THEN Append(history, [user_id |-> user_id, status |-> status])
                 ELSE history,
     raised |-> FALSE]

\* execute_sql behind permission_required(READ_DATA), in a run of the
\* script: what the caller gets (ret) and the tables and st.session_state
\* it leaves.  An exception inside the try, one of log_query included, is
\* caught by the except clause, which logs the error and returns None; an
\* exception of the log_query call of the except clause leaves the function
ExecuteSqlEffect(sql, write_ok) ==
    LET state == AfterRequireLogin
        uid == state.user_info.user_id
        tok == session_state.session_token
        first == LogQuery(query_history, uid,
                          IF sql = "runs" THEN "success" ELSE "error", write_ok)
        second == LogQuery(first.history, uid, "error", write_ok)
        base == [sessions |-> SessionsAfterRequireLogin,
                 session_state |-> state,
                 query_history |-> query_history]
    IN
    IF ~LoggedIn
    THEN [base EXCEPT !.session_state = state] @@
         [ret |-> Ret("execute_sql", "login", 0, tok, "none", 0, 0)]
    ELSE IF ~RequirePermission(state, "read_data")
    THEN base @@ [ret |-> Ret("execute_sql", "none", uid, tok, "access_denied", 0, 0)]
    ELSE IF sql = "invalid"
    THEN base @@ [ret |-> Ret("execute_sql", "none", uid, tok, "invalid_sql", 0, 0)]
    ELSE IF sql = "runs" /\ ~first.raised
    THEN [base EXCEPT !.query_history = first.history] @@
         [ret |-> Ret("execute_sql", "df", uid, tok, "none", 0, 0)]
    ELSE IF sql = "runs"
    THEN [base EXCEPT !.query_history = second.history] @@
         [ret |-> Ret("execute_sql", IF second.raised THEN "raise" ELSE "none",
                      uid, tok, "sql_error", 0, 0)]
    ELSE [base EXCEPT !.query_history = first.history] @@
         [ret |-> Ret("execute_sql", IF first.raised THEN "raise" ELSE "none",
                      uid, tok, "sql_error", 0, 0)]

ExecuteSql(sql, write_ok) ==
    /\ Len(query_history) < MaxHistory
    /\ LET e == ExecuteSqlEffect(sql, write_ok) IN
       /\ sessions' = e.sessions
       /\ session_state' = e.session_state
       /\ query_history' = e.query_history
       /\ ret' = e.ret
    /\ UNCHANGED <<users, prefs, now, ticks, pc, snap, reg, streak, fifth_at>>

(* --------------------------- specifications ---------------------------- *)
TokenInputs == 0..(MaxSessions + 1)

\* the calls on sessions and on existing accounts, each one transaction,
\* made on the AuthSystem object itself (no st.session_state involved)
StoreCall ==
    \/ \E t \in TokenInputs : ValidateSession(t) /\ UNCHANGED session_state
    \/ \E t \in TokenInputs : Logout(t) /\ UNCHANGED session_state
    \/ \E i \in IdInputs : DeactivateUser(i) /\ UNCHANGED session_state

\* the built-in administrator's account over time: every call runs alone
Next ==
    \/ \E d \in TimeSteps : Tick(d) /\ UNCHANGED session_state
    \/ \E i \in Names, p \in Passwords :
          Authenticate(i, p) /\ UNCHANGED session_state
    \/ \E i \in IdInputs, r \in RoleInputs :
          UpdateUserRole(i, r) /\ UNCHANGED session_state
    \/ StoreCall

Spec == Init /\ [][Next]_vars

\* registration: a second account beside the administrator's, at one instant
NextAccounts ==
    \/ \E u \in NewUsernames, e \in NewEmails, p \in NewPasswords, r \in NewRoles :
          CreateUser(u, e, p, r) /\ UNCHANGED session_state
    \/ \E i \in Names, p \in Passwords :
          Authenticate(i, p) /\ UNCHANGED session_state
    \/ StoreCall

SpecAccounts == Init /\ [][NextAccounts]_vars

\* authenticate calls of several callers overlap, at one instant
NextConc ==
    \/ \E p \in Procs, i \in Names, pw \in Passwords :
          AuthSelect(p, i, pw) /\ UNCHANGED session_state
    \/ \E p \in Procs : AuthCommit(p) /\ UNCHANGED session_state
    \/ StoreCall

SpecConc == Init /\ [][NextConc]_vars

\* create_user calls of several callers overlap between SELECT and INSERT
NextCreate ==
    \/ \E p \in Procs, u \in NewUsernames, e \in NewEmails,
          pw \in NewPasswords, r \in NewRoles :
          CreateSelect(p, u, e, pw, r) /\ UNCHANGED session_state
    \/ \E p \in Procs : CreateInsert(p) /\ UNCHANGED session_state
    \/ StoreCall

SpecCreate == Init /\ [][NextCreate]_vars

\* the store fails under authenticate and validate_session calls
NextFail ==
    \/ \E d \in TimeSteps : Tick(d) /\ UNCHANGED session_state
    \/ \E i \in FailNames, p \in Passwords :
          Authenticate(i, p) /\ UNCHANGED session_state
    \/ \E i \in FailNames, p \in Passwords, step \in FailSteps :
          AuthenticateFailing(i, p, step) /\ UNCHANGED session_state
    \/ \E t \in TokenInputs, step \in FailSteps :
          ValidateSessionFailing(t, step) /\ UNCHANGED session_state
    \/ StoreCall

SpecFail == Init /\ [][NextFail]_vars

\* queries of one browser session, the audit log failing or not
NextAudit ==
    \/ \E d \in TimeSteps : Tick(d) /\ UNCHANGED session_state
    \/ SimpleLogin(AdminName, AdminPassword)
    \/ \E sql \in SqlInputs, write_ok \in BOOLEAN : ExecuteSql(sql, write_ok)
    \/ SidebarLogout
    \/ \E i \in IdInputs : DeactivateUser(i) /\ UNCHANGED session_state

SpecAudit == Init /\ [][NextAudit]_vars

\* one browser session over time, beside the administrative calls that
\* change its account under it
NextFacade ==
    \/ \E d \in TimeSteps : Tick(d) /\ UNCHANGED session_state
    \/ CreateUser(DemoName, DemoEmail, DemoPassword, "guest")
          /\ UNCHANGED session_state
    \/ SimpleLogin(AdminName, AdminPassword)
    \/ DemoLogin
    \/ \E perm \in PermissionInputs : Request(perm)
    \/ SidebarLogout
    \/ SwitchRole
    \/ ProfileLogout
    \/ \E i \in IdInputs : DeactivateUser(i) /\ UNCHANGED session_state
    \/ \E i \in IdInputs, r \in RoleInputs :
          UpdateUserRole(i, r) /\ UNCHANGED session_state

SpecFacade == Init /\ [][NextFacade]_vars

\* constructions of AuthSystem by several callers over a store that starts
\* empty, and the calls on a constructed object that write the users table
NextBootstrap ==
    \/ \E p \in Procs : CountUsers(p) /\ UNCHANGED session_state
    \/ \E p \in Procs : CreateDefaultAdmin(p) /\ UNCHANGED session_state
    \/ \E p \in Procs : NewBrowserSession(p) /\ UNCHANGED session_state
    \/ \E u \in NewUsernames, e \in NewEmails, pw \in NewPasswords, r \in NewRoles :
          Constructed /\ CreateUser(u, e, pw, r) /\ UNCHANGED session_state
    \/ \E i \in IdInputs, r \in RoleInputs :
          Constructed /\ UpdateUserRole(i, r) /\ UNCHANGED session_state
    \/ \E i \in IdInputs :
          Constructed /\ DeactivateUser(i) /\ UNCHANGED session_state

SpecBootstrap == InitNewStore /\ [][NextBootstrap]_vars

\* authenticate calls for the administrator's account by several callers,
\* overlapping between SELECT and UPDATE, while the clock advances
WrongCall(p) ==
    \E pw \in Passwords \ {AdminPassword} :
        AuthSelect(p, AdminName, pw) /\ UNCHANGED session_state

RightCall(p) == AuthSelect(p, AdminName, AdminPassword) /\ UNCHANGED session_state

FinishCall(p) == AuthCommit(p) /\ UNCHANGED session_state

NextLockout ==
    \/ \E d \in TimeSteps : Tick(d) /\ UNCHANGED session_state
    \/ \E p \in Procs : WrongCall(p)
    \/ \E p \in Procs : RightCall(p)
    \/ \E p \in Procs : FinishCall(p)

\* a call that has read the row goes on to its commit (its thread runs), and
\* a caller that is free to call makes a wrong-password call
SpecLockout ==
    /\ Init
    /\ [][NextLockout]_vars
    /\ \A p \in Procs : WF_vars(FinishCall(p))
    /\ \A p \in Procs : WF_vars(WrongCall(p))

\* authenticate with tokens drawn at random, and the calls on sessions
NextTokens ==
    \/ \E i \in FailNames, p \in Passwords, t \in TokenDraws :
          AuthenticateDrawing(i, p, t) /\ UNCHANGED session_state
    \/ StoreCall

SpecTokens == Init /\ [][NextTokens]_vars

\* the calls that write users.role, and logins on the accounts written
NextRoles ==
    \/ \E u \in NewUsernames, e \in NewEmails, pw \in NewPasswords,
          r \in AnyRoleInputs :
          CreateUser(u, e, pw, r) /\ UNCHANGED session_state
    \/ \E i \in IdInputs, r \in AnyRoleInputs :
          UpdateUserRole(i, r) /\ UNCHANGED session_state
    \/ \E i \in FailNames :
          Authenticate(i, AdminPassword) /\ UNCHANGED session_state
    \/ \E t \in TokenInputs : ValidateSession(t) /\ UNCHANGED session_state
    \/ \E i \in IdInputs : DeactivateUser(i) /\ UNCHANGED session_state

SpecRoles == Init /\ [][NextRoles]_vars

\* the administrator's logins over time, the tokens drawn at random
NextAtomic ==
    \/ \E d \in TimeSteps : Tick(d) /\ UNCHANGED session_state
    \/ \E p \in Passwords, t \in TokenDraws :
          AuthenticateDrawing(AdminName, p, t) /\ UNCHANGED session_state

SpecAtomic == Init /\ [][NextAtomic]_vars

(* ------------------------------- claims -------------------------------- *)
Issued(tok) == \E i \in SessionIds : sessions[i].session_token = tok
TokenRow(tok) == CHOOSE i \in SessionIds : sessions[i].session_token = tok
Owner(tok) == sessions[TokenRow(tok)].user_id

\* C1: for every account that is active and not locked, authenticate called
\* with one of its identifiers (its username or its email) and its password
\* returns a session token, and validate_session of that token right after
\* returns that account.
C1_ValidLoginSucceeds ==
    [][\A i \in Names, p \in Passwords : \A u \in UserIds :
          ( /\ Authenticate(i, p)
            /\ i \in {users[u].username, users[u].email}
            /\ users[u].is_active
            /\ ~LockedNow(users[u])
            /\ PasswordMatches(users[u], p) )
          => ( /\ ret'.out = "ok"
               /\ ret'.uid = u
               /\ ValidateResult(ret.tok)' = u )]_vars

\* the account u has just taken, or took less than 30 minutes ago, the fifth
\* of five consecutive authenticate calls with a wrong password
FiveWrong(u) ==
    /\ u \in UserIds
    /\ streak[u] = LockThreshold
    /\ now < fifth_at[u] + LockoutMinutes

\* a step that is an authenticate call which fetched account u
AuthenticateFor(u) == ret'.op = "authenticate" /\ ret'.row = u /\ now' = now

\* C2: for every account, after 5 consecutive authenticate calls with a wrong
\* password (counted from the account's creation or last successful
\* authenticate) the account is locked, and an authenticate call made less
\* than 30 minutes after the fifth is rejected as locked and issues no
\* session, whatever the password.
C2_FiveFailuresLockAnyAccount ==
    [][\A u \in IdInputs :
          /\ FiveWrong(u)' => LockedNow(users[u])'
          /\ FiveWrong(u) /\ AuthenticateFor(u)
             => ret'.msg = "locked" /\ ret'.out = "none" /\ sessions' = sessions]_vars

\* C2, amended: the same for every account that is active (a deactivated
\* account is never locked by wrong passwords).
C2_FiveFailuresLock ==
    [][\A u \in IdInputs :
          /\ (FiveWrong(u) /\ users[u].is_active)' => LockedNow(users[u])'
          /\ FiveWrong(u) /\ users[u].is_active /\ AuthenticateFor(u)
             => ret'.msg = "locked" /\ ret'.out = "none" /\ sessions' = sessions]_vars

C2_Witness ==
    \E u \in UserIds :
        /\ streak[u] = LockThreshold /\ users[u].is_active
        /\ fifth_at[u] < now /\ now < fifth_at[u] + LockoutMinutes
        /\ ret.op = "authenticate" /\ ret.row = u /\ ret.msg = "locked"

\* C4: every successful authenticate leaves the account with
\* failed_login_attempts 0 and locked_until NULL, whatever they were before.
C4_SuccessResets ==
    ret.op = "authenticate" /\ ret.out = "ok"
    => /\ users[ret.uid].failed_login_attempts = 0
       /\ users[ret.uid].locked_until = Null

\* a successful authenticate that read a counter of at least LockThreshold:
\* the account had been locked and the lock had elapsed
C4_Witness ==
    /\ ret.op = "authenticate" /\ ret.out = "ok"
    /\ ret.failed >= LockThreshold
    /\ users[ret.uid].failed_login_attempts = 0

\* C5: while an account's locked_until is set and in the future, an
\* authenticate call for it is rejected as locked, returns None, and leaves
\* the users table (counter, locked_until, last_login) and the sessions
\* table unchanged, whatever the password.
C5_LockedRejectedUnchanged ==
    [][\A u \in IdInputs :
          (u \in UserIds /\ LockedNow(users[u]) /\ AuthenticateFor(u))
          => /\ ret'.msg = "locked" /\ ret'.out = "none"
             /\ users' = users /\ sessions' = sessions]_vars

C5_Witness ==
    /\ ret.op = "authenticate" /\ ret.msg = "locked"
    /\ LockedNow(users[ret.row])
    /\ users[ret.row].failed_login_attempts >= LockThreshold

\* C6: validate_session returns None for every token whose session is past
\* its expiry and for every token never issued, the empty token included.
C6_ExpiredOrUnknownIsNone ==
    ( /\ ret.op = "validate_session"
      /\ \/ ~Issued(ret.tok)
         \/ sessions[TokenRow(ret.tok)].expires_at < now )
    => ret.out = "none"

C6_Witness ==
    /\ ret.op = "validate_session" /\ ret.out = "none"
    /\ Issued(ret.tok)
    /\ sessions[TokenRow(ret.tok)].expires_at < now
    /\ users[Owner(ret.tok)].is_active

\* C7: validate_session returns an account only if the session is flagged
\* active and the current time is strictly less than its expiry.
C7_ValidOnlyBeforeExpiry ==
    ret.op = "validate_session" /\ ret.out = "ok"
    => /\ sessions[TokenRow(ret.tok)].is_active
       /\ now < sessions[TokenRow(ret.tok)].expires_at

\* C8: logout is idempotent: after a logout the session of the token is
\* invalid, a second logout of the token would change nothing in the store,
\* and a logout of a token no session carries changes nothing.
C8_LogoutIdempotent ==
    [][ret'.op = "logout"
       => /\ RevokeToken(sessions', ret'.tok) = sessions'
          /\ ValidateResult(ret.tok)' = 0
          /\ users' = users
          /\ (~Issued(ret'.tok) => sessions' = sessions)]_vars

C8_Witness ==
    /\ ret.op = "logout" /\ Issued(ret.tok)
    /\ ~sessions[TokenRow(ret.tok)].is_active
    /\ sessions[TokenRow(ret.tok)].expires_at > now
    /\ users[Owner(ret.tok)].is_active

\* C9: after deactivate_user every later authenticate call for the account
\* is rejected as deactivated, whatever the password, the counter and
\* locked_until.
C9_DeactivatedAlwaysDeactivated ==
    ( /\ ret.op = "authenticate" /\ ret.row # 0
      /\ ~users[ret.row].is_active )
    => ret.out = "none" /\ ret.msg = "deactivated"

\* C9, amended: such a call returns None; it is rejected as deactivated
\* unless locked_until is still in the future, and then as locked.
C9_DeactivatedRejected ==
    ( /\ ret.op = "authenticate" /\ ret.row # 0
      /\ ~users[ret.row].is_active )
    => /\ ret.out = "none"
       /\ ret.msg = IF LockedNow(users[ret.row]) THEN "locked" ELSE "deactivated"

C9_Witness ==
    /\ ret.op = "authenticate" /\ ret.row # 0
    /\ ~users[ret.row].is_active
    /\ ret.msg = "deactivated"
    /\ users[ret.row].failed_login_attempts >= LockThreshold

\* C3: once locked_until has been written for an account, only a successful
\* authenticate for that account sets it back to NULL; no failing call does,
\* whatever it read before the lock was written.
C3_LockNeverClearedByFailure ==
    [][\A u \in IdInputs :
          ( /\ u \in UserIds
            /\ users[u].locked_until # Null
            /\ users'[u].locked_until = Null )
          => ret'.op = "authenticate" /\ ret'.out = "ok" /\ ret'.uid = u]_vars

\* C10: once an account is deactivated, validate_session returns None for
\* every session token of the account, also for a session that an
\* authenticate call which read the account as active inserted afterwards.
C10_DeactivatedSessionsInvalid ==
    ( /\ ret.op = "validate_session" /\ Issued(ret.tok)
      /\ ~users[Owner(ret.tok)].is_active )
    => ret.out = "none"

\* the session was inserted after the deactivation: its flag is still set
C10_Witness ==
    /\ ret.op = "validate_session" /\ ret.out = "none" /\ Issued(ret.tok)
    /\ ~users[Owner(ret.tok)].is_active
    /\ sessions[TokenRow(ret.tok)].is_active

\* a create_user call that returned False and wrote nothing
CreateFailed ==
    /\ ret'.op = "create_user" /\ ret'.out = "false"
    /\ users' = users /\ prefs' = prefs
    /\ sessions' = sessions /\ query_history' = query_history

C19_RolePermissionsTable ==
    /\ \A u \in UserIds :
          /\ users[u].role \in DOMAIN ROLE_PERMISSIONS
          /\ PermissionsFor(users[u].role) \subseteq PermissionsFor("admin")
    /\ Roles \subseteq DOMAIN ROLE_PERMISSIONS
    /\ \A r \in Roles : PermissionsFor(r) = ROLE_PERMISSIONS[r]
    /\ PermissionsFor("guest") \subseteq PermissionsFor("admin")
    /\ PermissionsFor("guest") # PermissionsFor("admin")
    /\ PermissionsFor("admin") = Permissions
    /\ Cardinality(Permissions) = 10

\* the table was applied to both roles: the built-in administrator, made a
\* guest, signed in and got the guest's permissions
C19_Witness ==
    /\ ret.op = "authenticate" /\ ret.out = "ok" /\ ret.uid = 1
    /\ ret.role = "guest" /\ ret.permissions = PermissionsFor("guest")
    /\ ret.permissions # PermissionsFor("admin")

\* C20: the dict returned by a successful authenticate, and by
\* validate_session, carries exactly the permissions ROLE_PERMISSIONS gives
\* the role the account has at that moment; for a viewer these are
\* read_data, view_analytics, export_data and view_query_history, so
\* neither write_data nor manage_users.
C20_ViewCarriesRolePermissions ==
    ( /\ ret.op \in {"authenticate", "validate_session"}
      /\ ret.out = "ok" )
    => /\ ret.role = users[ret.uid].role
       /\ ret.permissions = ROLE_PERMISSIONS[users[ret.uid].role]
       /\ ( users[ret.uid].role = "viewer"
             => /\ ret.permissions = {"read_data", "view_analytics",
                                      "export_data", "view_query_history"}
                /\ "write_data" \notin ret.permissions
                /\ "manage_users" \notin ret.permissions )

\* validate_session of a session issued while the account was an
\* administrator, the account since made a viewer
C20_Witness ==
    /\ ret.op = "validate_session" /\ ret.out = "ok"
    /\ users[ret.uid].role = "viewer"
    /\ users[ret.uid].last_login # Null
    /\ ret.permissions = {"read_data", "view_analytics", "export_data",
                          "view_query_history"}

\* C12: an operation behind permission_required(permission) runs if and only
\* if, at that moment, validate_session would accept the session token the
\* browser session holds and the permission is among those of the role the
\* account then has; otherwise it is not run.
C12_AuthorizeIffAuthenticated ==
    [][\A perm \in PermissionInputs :
          Request(perm)
          => ( ret'.out = "ran"
               <=> LET uid == ValidateResult(session_state.session_token) IN
                   /\ uid # 0
                   /\ perm \in PermissionsFor(users[uid].role) )]_vars

\* the three buttons that sign a browser session out
LogoutOps == {"sidebar_logout", "switch_role", "profile_logout"}

\* C13: after any of the sign-out buttons (Logout or Exit Demo and Switch
\* Role of the sidebar, Logout of the profile panel) the session of the
\* token the browser session held is flagged inactive in the store and
\* validate_session of that token returns None.
C13_LogoutRevokes ==
    [][(ret'.op \in LogoutOps /\ ret'.tok # 0)
       => /\ ~(sessions[TokenRow(ret.tok)].is_active)'
          /\ ValidateResult(ret.tok)' = 0]_vars

\* C14: a browser session gets a cached account only by a successful
\* authenticate and loses it only by a sign-out button or a failed
\* validation; and on the first run after its session has expired, been
\* revoked, or its account been deactivated, require_login returns False
\* and user_info and session_token are cleared.
C14_NoStayOnInvalidSession ==
    [][/\ ( session_state.user_info = NoView /\ session_state'.user_info # NoView )
          => ( ret'.op = "authenticate" /\ ret'.out = "ok" )
       /\ ( session_state.user_info # NoView /\ session_state'.user_info = NoView )
          => ( ret'.op \in LogoutOps \/ (ret'.op = "request" /\ ret'.out = "login") )
       /\ ( /\ ret'.op = "request"
             /\ session_state.user_info # NoView
             /\ ValidateResult(session_state.session_token) = 0 )
          => /\ ret'.out = "login"
             /\ session_state'.user_info = NoView
             /\ session_state'.session_token = 0]_vars

\* what a caller of authenticate gets to see: the return value and the
\* messages on the page
Observable(r) ==
    [out |-> r.out, uid |-> r.uid, tok |-> r.tok, role |-> r.role,
     permissions |-> r.permissions, shown |-> ShownAfterLogin(r)]

\* a step that is an authenticate call with a wrong password for account u,
\* active and not locked: the call counted one more failure
WrongPasswordFor(u) ==
    /\ AuthenticateFor(u)
    /\ users[u].is_active /\ ~LockedNow(users[u])
    /\ users'[u].failed_login_attempts = users[u].failed_login_attempts + 1

\* C15: an authenticate call with an identifier no account has, and one
\* with a wrong password for an account that is active and not locked, give
\* the caller the same thing: None, and the same message on the page.
C15_UnknownLooksLikeWrongPassword ==
    [][( \/ AuthenticateFor(0)
         \/ \E u \in UserIds : WrongPasswordFor(u) )
       => Observable(ret') = Observable(Ret("authenticate", "none", 0, 0,
                                            "none", 0, 0))]_vars

\* a wrong password for the administrator's account, which is counted
C15_Witness ==
    /\ ret.op = "authenticate" /\ ret.out = "none" /\ ret.row = 1
    /\ ret.msg = "none"
    /\ users[1].is_active
    /\ users[1].failed_login_attempts = ret.failed + 1

\* C16: a denied authenticate call for an account shows the same message
\* whether the account is locked or the password is wrong.
C16_LockoutLooksLikeWrongPassword ==
    ( /\ ret.op = "authenticate" /\ ret.out = "none"
      /\ ret.row # 0 /\ users[ret.row].is_active )
    => ShownAfterLogin(ret) = {"invalid_credentials"}

\* the call that has just returned met a failing statement: opening the
\* store raised, or the except clause showed the error of a later one
StoreFailed(r) ==
    /\ r.op \in {"authenticate", "validate_session"}
    /\ r.out = "raise" \/ r.msg = "error"

C18_AuditFailureInvisible ==
    [][\A sql \in SqlInputs :
          ExecuteSql(sql, FALSE)
          => LET good == ExecuteSqlEffect(sql, TRUE) IN
             /\ ret' = good.ret
             /\ ret'.out # "raise"
             /\ sessions' = good.sessions
             /\ session_state' = good.session_state
             /\ users' = users /\ prefs' = prefs
             /\ query_history' = query_history]_vars

\* a query ran and was returned, its audit row missing
C18_Witness ==
    /\ ret.op = "execute_sql" /\ ret.out = "df" /\ ret.uid = 1
    /\ query_history = <<>>

\* C21: once update_user_role has written role r for an account, a run of
\* the script by a browser session signed in on that account decides
\* permission_required by the permissions ROLE_PERMISSIONS gives r (an
\* operation runs if and only if its permission is among them), and the
\* account cached by the run is the one validate_session returns: role r
\* with those permissions.
C21_RoleChangeDecidesNextRequest ==
    [][\A perm \in PermissionInputs :
          ( Request(perm) /\ LoggedIn )
          => LET uid == session_state'.user_info.user_id IN
             /\ session_state'.user_info = View(uid, users[uid].role)
             /\ ret'.out = "ran" <=> perm \in PermissionsFor(users[uid].role)]_vars

\* C22: a validate_session call on a token whose sessions row is active with
\* expires_at before the clock's reading returns None and leaves that row
\* stored with is_active false.
C22_ExpiredValidateRevokes ==
    [][\A i \in SessionIds :
          ( /\ ret'.op = "validate_session"
            /\ ret'.tok = sessions[i].session_token
            /\ sessions[i].is_active
            /\ sessions[i].expires_at < now )
          => /\ ret'.out = "none"
             /\ ~sessions'[i].is_active]_vars

\* a validate_session call has just flagged the expired session of an account
\* that is still active
C22_Witness ==
    /\ ret.op = "validate_session"
    /\ ret.out = "none"
    /\ \E i \in SessionIds :
          /\ sessions[i].session_token = ret.tok
          /\ sessions[i].expires_at < now
          /\ ~sessions[i].is_active
          /\ users[sessions[i].user_id].is_active

\* C23: no step removes a sessions row or changes the expires_at of a row
\* that exists, and a row a step adds carries expires_at = the clock's reading
\* at that step plus 8 hours (in minutes).
C23_ExpiryFixedAtIssue ==
    [][/\ Len(sessions') >= Len(sessions)
       /\ \A i \in SessionIds : sessions'[i].expires_at = sessions[i].expires_at
       /\ Len(sessions') > Len(sessions)
            => /\ Len(sessions') = Len(sessions) + 1
               /\ sessions'[Len(sessions')].expires_at = now + 8 * 60]_vars

\* a session validated some time after it was issued, its expiry still the
\* one written at issue, while its account holds a later session as well
C23_Witness ==
    /\ ret.op = "validate_session"
    /\ ret.out = "ok"
    /\ \E i, j \in SessionIds :
          /\ sessions[i].session_token = ret.tok
          /\ sessions[i].expires_at < now + 8 * 60
          /\ j > i
          /\ sessions[j].user_id = sessions[i].user_id
          /\ sessions[j].expires_at > sessions[i].expires_at

\* C24: a construction of AuthSystem inserts the administrator's row exactly
\* when the users table is empty as its INSERT runs, the table then holding
\* that row alone; a construction step over a users table that has a row
\* leaves the table as it is; and whenever some AuthSystem is constructed,
\* one row and no more carries the administrator's username.
C24_OneBootstrapAdmin ==
    /\ [](Cardinality({i \in UserIds : users[i].username = AdminName})
            = IF Constructed \/ Len(users) > 0 THEN 1 ELSE 0)
    /\ [][ret'.op = "init"
            => /\ ret'.out = "created" <=> Len(users) = 0
               /\ ret'.out = "created"
                    => users' = <<NewUser(AdminName, AdminEmail,
                                          AdminPassword, 1, "admin")>>
               /\ Len(users) > 0 => users' = users]_vars

\* two constructions both counted no row; one inserted the administrator,
\* the INSERT of the other has just raised
C24_Witness ==
    /\ ret.op = "init"
    /\ ret.out = "raised"
    /\ Len(users) = 1
    /\ \E p \in Procs : pc[p] = "idle"

\* C25: while wrong-password authenticate calls for the administrator's
\* account keep being made, overlapping or not, and every call that started
\* runs to its commit, the account gets locked (locked_until later than the
\* clock's reading) unless an authenticate call for it succeeds.
C25_EventuallyLocked ==
    <>(LockedNow(users[1]) \/ users[1].last_login # Null)

\* the account is locked, no call for it ever succeeded, and a call that
\* read the row before the lock was written is still running
C25_Witness ==
    /\ LockedNow(users[1])
    /\ users[1].last_login = Null
    /\ \E p \in Procs : pc[p] = "verify" /\ snap[p].failed < LockThreshold - 1

\* C26: an authenticate call that fetches an active account which is not
\* locked and finds the password wrong leaves failed_login_attempts one
\* higher, and leaves locked_until = the clock's reading + 30 minutes if the
\* new count is 5 or more, NULL if it is less; and an account that took fewer
\* than 5 wrong-password calls since its creation or its last successful
\* authenticate has locked_until NULL.
C26_FailureCountsAndLocksAtFive ==
    [][\A u \in IdInputs :
          /\ ( /\ u \in UserIds
               /\ AuthenticateFor(u)
               /\ users[u].is_active
               /\ ~LockedNow(users[u])
               /\ ret'.out = "none" )
             => /\ users'[u].failed_login_attempts
                     = users[u].failed_login_attempts + 1
                /\ users'[u].locked_until
                     = IF users'[u].failed_login_attempts >= LockThreshold
                       THEN now + LockoutMinutes ELSE Null
          /\ ( u \in UserIds /\ streak[u] < LockThreshold )'
             => users'[u].locked_until = Null]_vars

\* the wrong-password call that has just brought an active account's count
\* to 5 and locked it
C26_Witness ==
    \E u \in UserIds :
        /\ ret.op = "authenticate" /\ ret.out = "none" /\ ret.msg = "none"
        /\ ret.row = u /\ ret.failed = LockThreshold - 1
        /\ users[u].is_active
        /\ users[u].failed_login_attempts = LockThreshold
        /\ users[u].locked_until = now + LockoutMinutes

\* C27: in every reachable state the locked_until stored for an account is
\* NULL or later than the clock's reading.
C27_LockNullOrFuture ==
    \A u \in UserIds :
        users[u].locked_until = Null \/ users[u].locked_until > now

\* C28: in every reachable state no two rows of sessions, whatever their
\* is_active and expires_at, carry the same session_token, and the token a
\* successful authenticate returns is carried by no row stored before the
\* call (rows are never deleted, so by no session issued before).
C28_TokensUnique ==
    /\ [](\A i, j \in SessionIds :
             sessions[i].session_token = sessions[j].session_token => i = j)
    /\ [][ret'.op = "authenticate" /\ ret'.out = "ok"
            => /\ Len(sessions') = Len(sessions) + 1
               /\ sessions'[Len(sessions')].session_token = ret'.tok
               /\ \A i \in SessionIds : sessions'[i] = sessions[i]
               /\ ~Issued(ret'.tok)]_vars

\* the generator has just repeated the token of a session that was revoked,
\* and the call with the right password was refused
C28_Witness ==
    /\ ret.op = "authenticate"
    /\ ret.msg = "error"
    /\ ret.row # 0
    /\ PasswordMatches(users[ret.row], AdminPassword)
    /\ \E i \in SessionIds : ~sessions[i].is_active
    /\ Len(sessions) < MaxSessions

\* C29: in every reachable state the role stored for every account is one
\* of admin, analyst, viewer, guest.
C29_RolesClosed ==
    \A u \in UserIds : users[u].role \in Roles

\* C30: no step removes a users row or changes a row's username or email
\* (the ids in use only grow in number), and an account stored with
\* is_active false is stored so after every step.
C30_AccountsNeverRemoved ==
    [][/\ Len(users') >= Len(users)
       /\ \A u \in UserIds :
             /\ users'[u].username = users[u].username
             /\ users'[u].email = users[u].email
             /\ ~users[u].is_active => ~users'[u].is_active]_vars

\* a second account exists, and an authenticate call with the right
\* password has just been refused because its account is deactivated
C30_Witness ==
    /\ Len(users) > 1
    /\ ret.op = "authenticate"
    /\ ret.msg = "deactivated"
    /\ ret.row # 0
    /\ ~users[ret.row].is_active
    /\ PasswordMatches(users[ret.row], AdminPassword)

\* C31: when calls run one after another, in every reachable state an
\* account's locked_until is not NULL if and only if its
\* failed_login_attempts is 5 or more.
C31_LockedIffFiveOrMore ==
    \A u \in UserIds :
        users[u].locked_until # Null
        <=> users[u].failed_login_attempts >= LockThreshold

\* an account whose lock has elapsed: the count is still 5 or more and the
\* timestamp, now in the past, is still stored
C31_Witness ==
    \E u \in UserIds :
        /\ users[u].failed_login_attempts >= LockThreshold
        /\ users[u].locked_until # Null
        /\ users[u].locked_until < now

\* C32: an account whose stored lock has elapsed still has
\* failed_login_attempts of 5 or more, and one authenticate call with a wrong
\* password for it, if it is active, writes locked_until = the clock's
\* reading + 30 minutes again.
C32_OneFailureRelocks ==
    [][\A u \in IdInputs :
          ( /\ u \in UserIds
            /\ users[u].locked_until # Null
            /\ users[u].locked_until <= now )
          => /\ users[u].failed_login_attempts >= LockThreshold
             /\ ( /\ AuthenticateFor(u)
                  /\ ret'.out = "none"
                  /\ ret'.msg = "none" )
                => /\ users'[u].locked_until = now + LockoutMinutes
                   /\ LockedNow(users[u])']_vars

\* the single wrong-password call after an elapsed lock that has just locked
\* the account again
C32_Witness ==
    \E u \in UserIds :
        /\ ret.op = "authenticate" /\ ret.out = "none" /\ ret.msg = "none"
        /\ ret.row = u
        /\ ret.failed >= LockThreshold
        /\ users[u].failed_login_attempts = ret.failed + 1
        /\ users[u].locked_until = now + LockoutMinutes
        /\ now >= LockoutMinutes

\* a session that is flagged inactive or whose account is deactivated
Dead(i) == ~sessions[i].is_active \/ ~users[sessions[i].user_id].is_active

\* C33: no step sets the is_active of a sessions row from false to true;
\* a validate_session call that returns None for the token of a stored
\* session leaves that session flagged inactive or its account deactivated;
\* and such a session stays so and validate_session would return None for
\* its token after every later step.
C33_ActiveFlagMonotonic ==
    [][\A i \in SessionIds :
          /\ ~sessions[i].is_active => ~sessions'[i].is_active
          /\ ( ret'.op = "validate_session" /\ ret'.out = "none"
               /\ ret'.tok = sessions[i].session_token )
             => Dead(i)'
          /\ Dead(i)
             => Dead(i)' /\ ValidateResult(sessions[i].session_token)' = 0]_vars

\* validate_session has just returned None for a session that was logged
\* out, whose expiry is still ahead and whose account is active
C33_Witness ==
    /\ ret.op = "validate_session"
    /\ ret.out = "none"
    /\ \E i \in SessionIds :
          /\ sessions[i].session_token = ret.tok
          /\ ~sessions[i].is_active
          /\ sessions[i].expires_at > now
          /\ users[sessions[i].user_id].is_active

\* C34: an authenticate call that fetches no row for the identifier, or
\* fetches a row with is_active false, leaves all four tables as they were.
C34_DeniedChangesNothing ==
    [][( \/ AuthenticateFor(0)
         \/ \E u \in UserIds : AuthenticateFor(u) /\ ~users[u].is_active )
       => /\ ret'.out = "none"
          /\ users' = users
          /\ sessions' = sessions
          /\ prefs' = prefs
          /\ query_history' = query_history]_vars

\* a call with the right password for a deactivated account whose stored
\* count is not 0 has just been refused
C34_Witness ==
    /\ ret.op = "authenticate"
    /\ ret.msg = "deactivated"
    /\ ret.row # 0
    /\ ~users[ret.row].is_active
    /\ users[ret.row].failed_login_attempts > 0
    /\ users[ret.row].failed_login_attempts < LockThreshold

\* C35: a successful authenticate appends one sessions row and leaves every
\* stored row as it was; a logout changes no sessions row but the one that
\* carries its token and no users row; and after either call
\* validate_session would return for every other stored token what it
\* would have returned before.
C35_SessionsIndependent ==
    [][/\ ( ret'.op = "authenticate" /\ ret'.out = "ok" )
          => /\ Len(sessions') = Len(sessions) + 1
             /\ \A i \in SessionIds :
                   /\ sessions'[i] = sessions[i]
                   /\ ValidateResult(sessions[i].session_token)'
                        = ValidateResult(sessions[i].session_token)
       /\ ret'.op = "logout"
          => /\ Len(sessions') = Len(sessions)
             /\ users' = users
             /\ \A i \in SessionIds :
                   sessions[i].session_token # ret'.tok
                   => /\ sessions'[i] = sessions[i]
                      /\ ValidateResult(sessions[i].session_token)'
                           = ValidateResult(sessions[i].session_token)]_vars

\* one of two sessions of an account has just been logged out and the other
\* one is still valid
C35_Witness ==
    /\ ret.op = "logout"
    /\ \E i, j \in SessionIds :
          /\ sessions[i].session_token = ret.tok
          /\ ~sessions[i].is_active
          /\ j # i
          /\ sessions[j].user_id = sessions[i].user_id
          /\ ValidateResult(sessions[j].session_token) = sessions[j].user_id

\* C36: in every reachable state no two different accounts are such that the
\* username of one is the email of the other.
C36_IdentifierNamesOneAccount ==
    \A u, v \in UserIds :
        u # v => users[u].username # users[v].email

\* C37: an authenticate call that returns an account has stored the new
\* sessions row together with failed_login_attempts 0, locked_until NULL and
\* last_login = the clock's reading for that account; a call that returns
\* None has stored no sessions row and changed no last_login; and a call
\* whose INSERT was rejected returns None and leaves the users table, with
\* the account's count, lock and last_login, as it was.
C37_SuccessIsAtomic ==
    [][ret'.op = "authenticate"
       => /\ ret'.out = "ok"
             => /\ Len(sessions') = Len(sessions) + 1
                /\ sessions'[Len(sessions')].user_id = ret'.uid
                /\ sessions'[Len(sessions')].session_token = ret'.tok
                /\ users'[ret'.uid].failed_login_attempts = 0
                /\ users'[ret'.uid].locked_until = Null
                /\ users'[ret'.uid].last_login = now
          /\ ret'.out # "ok"
             => /\ sessions' = sessions
                /\ \A u \in UserIds : users'[u].last_login = users[u].last_login
          /\ ret'.msg = "error"
             => /\ ret'.out = "none"
                /\ users' = users]_vars

\* the right password after an elapsed lock, the INSERT rejected: the count
\* of 5 or more, the elapsed lock and the earlier last_login are still stored
C37_Witness ==
    /\ ret.op = "authenticate"
    /\ ret.msg = "error"
    /\ ret.row = 1
    /\ users[1].failed_login_attempts >= LockThreshold
    /\ users[1].locked_until # Null
    /\ users[1].locked_until <= now
    /\ users[1].last_login # Null
    /\ users[1].last_login < now
====
